---- MODULE Spec2Model ----
(***************************************************************************)
(* Model of the audio-classification inference service (src/main.py) and   *)
(* of the residual network it drives (src/model.py).                       *)
(*                                                                         *)
(* Three specifications share this module:                                 *)
(*   Spec       the process lifetime of Main: load_model, the client's     *)
(*              POST and the whole evaluate handler;                       *)
(*   SpecTopK   the prediction pipeline of evaluate (nan_to_num, softmax,  *)
(*              topk) applied to every logits vector of a bounded family;  *)
(*   SpecBlock  the shape arithmetic of ResidualBlock and of the stem and  *)
(*              the four stages of AudioClassifier.                        *)
(***************************************************************************)
EXTENDS Integers, Sequences, FiniteSets, TLC

VARIABLES phase, device, classes, model, processor, checkpoint,
          request, response, tk, blk

vars == <<phase, device, classes, model, processor, checkpoint,
          request, response, tk, blk>>

serviceVars == <<phase, device, classes, model, processor, checkpoint,
                 request, response>>

(***************************************************************************)
(* Bounds of the model.                                                    *)
(***************************************************************************)
\* longest class-label list a checkpoint of the service carries
MaxClasses == 3
\* longest class-label list of the prediction pipeline in SpecTopK
MaxTopKClasses == 4
\* frame counts are taken this far above each length threshold of the code
MaxExtra == 1
\* largest height and width of a residual block's input in SpecBlock
MaxDim == 4
\* cap of the BatchNorm num_batches_tracked counter
MaxTracked == 2

(***************************************************************************)
(* float32 values.  A finite float is encoded by an integer; the three     *)
(* non-finite values are encoded outside the finite range.                 *)
(***************************************************************************)
FltMax == 2^29
PosInf == 2^30
NegInf == 0 - 2^30
NaN == 2^30 + 1

IsFinite(x) == x \notin {NaN, PosInf, NegInf}

\* IEEE addition on the encoded values (finite sums stay far below FltMax)
FAdd(a, b) ==
    IF a = NaN \/ b = NaN THEN NaN
    ELSE IF a = PosInf THEN (IF b = NegInf THEN NaN ELSE PosInf)
    ELSE IF a = NegInf THEN (IF b = PosInf THEN NaN ELSE NegInf)
    ELSE IF b \in {PosInf, NegInf} THEN b
    ELSE a + b

\* division by a small positive integer (np.mean over the channel axis)
FDiv(a, k) == IF IsFinite(a) THEN a \div k ELSE a

\* torch.nan_to_num / np.nan_to_num on one value
NanToNum(x) ==
    IF x = NaN THEN 0
    ELSE IF x = PosInf THEN FltMax
    ELSE IF x = NegInf THEN 0 - FltMax
    ELSE x

Max2(a, b) == IF a >= b THEN a ELSE b

RECURSIVE GCD(_, _)
GCD(a, b) == IF b = 0 THEN a ELSE GCD(b, a % b)

CeilDiv(a, b) == (a + b - 1) \div b

(***************************************************************************)
(* The prediction pipeline of evaluate (main.py:113-119).                  *)
(*                                                                         *)
(* Logits are float32.  The model keeps the logits whose softmax float32   *)
(* arithmetic computes without an approximation of exp: after the maximum  *)
(* is subtracted a logit is either 0 (exp gives exactly 1) or at least     *)
(* ExpUnderflow below it (exp underflows to exactly 0).  A confidence c is *)
(* encoded as the integer c * 2^26, which represents every float32         *)
(* quotient 1/s for s < 8 exactly.                                         *)
(***************************************************************************)
ConfScale == 2^26
ExpUnderflow == 104

\* raw logits the forward pass hands to nan_to_num
RawLogits == {NaN, NegInf, 0, 2 * ExpUnderflow, PosInf}

\* the first labels of the sorted ESC-50 class list a checkpoint carries
Labels == <<"airplane", "breathing", "brushing_teeth", "can_opening",
            "car_horn", "cat">>

ClassList(n) == SubSeq(Labels, 1, n)

RoundHalfEven(n, d) ==
    LET q == n \div d
        r == n % d
    IN  IF 2 * r < d THEN q
        ELSE IF 2 * r > d THEN q + 1
        ELSE IF q % 2 = 0 THEN q ELSE q + 1

\* float32 exp of a difference to the maximum logit
Exp32(d) == CASE d = 0 -> 1
              [] d <= 0 - ExpUnderflow -> 0

\* float32 quotient w / s, rounded to nearest on a 24-bit significand
Div32(w, s) ==
    IF w = 0 THEN 0
    ELSE LET e == CHOOSE e \in 0..26 :
                    /\ w * 2^e >= s * 2^23
                    /\ (e = 0 \/ w * 2^(e - 1) < s * 2^23)
         IN  RoundHalfEven(w * 2^e, s) * 2^(26 - e)

RECURSIVE SumTo(_, _)
SumTo(f, n) == IF n = 0 THEN 0 ELSE f[n] + SumTo(f, n - 1)

RECURSIVE MaxTo(_, _)
MaxTo(f, n) == IF n = 1 THEN f[1] ELSE Max2(f[n], MaxTo(f, n - 1))

\* torch.softmax(output, dim=1) over the n classes
Softmax(z, n) ==
    LET mx == MaxTo(z, n)
        w == [i \in 1..n |-> Exp32(z[i] - mx)]
        s == SumTo(w, n)
    IN  [i \in 1..n |-> Div32(w[i], s)]

\* a mutation of ArgBest: the selection keeps the smallest remaining value
ArgWorst(p, rem, tie) ==
    CHOOSE i \in rem : \A j \in rem :
        \/ p[i] < p[j]
        \/ p[i] = p[j] /\ (IF tie = "low" THEN i <= j ELSE i >= j)

\* the next index torch.topk selects; the order of equal values is left to
\* the kernel, so the caller draws the tie rule
ArgBest(p, rem, tie) ==
    CHOOSE i \in rem : \A j \in rem :
        \/ p[i] > p[j]
        \/ p[i] = p[j] /\ (IF tie = "low" THEN i <= j ELSE i >= j)

RECURSIVE TopKFrom(_, _, _, _)
TopKFrom(p, rem, k, tie) ==
    IF k = 0 THEN <<>>
    ELSE LET b == ArgBest(p, rem, tie)
         IN  <<b>> \o TopKFrom(p, rem \ {b}, k - 1, tie)

\* torch.topk(probabilities, k): indices by descending value
TopK(p, n, k, tie) == TopKFrom(p, 1..n, k, tie)

Raised(exc) == [kind |-> "raised", exc |-> exc]

\* main.py:113-119: nan_to_num, softmax, topk(k=3), the predictions list
Predictions(cls, output, tie) ==
    LET n == Len(cls)
        clean == [i \in 1..n |-> NanToNum(output[i])]
    IN  IF n < 3 THEN Raised("RuntimeError")
        ELSE LET probabilities == Softmax(clean, n)
                 top3 == TopK(probabilities, n, 3, tie)
             IN  [kind |-> "ok",
                  value |-> [j \in 1..3 |->
                      [class |-> cls[top3[j]],
                       confidence |-> probabilities[top3[j]]]]]

(***************************************************************************)
(* The network of model.py, as far as tensor shapes go.  A shape is the    *)
(* sequence <<batch, channels, height, width>>.                            *)
(***************************************************************************)
\* output length of nn.Conv2d / nn.MaxPool2d along one spatial axis
ConvLen(n, k, s, p) == (n + 2 * p - k) \div s + 1

Conv2d(in_channels, out_channels, kernel_size, stride, padding) ==
    [in_channels |-> in_channels, out_channels |-> out_channels,
     kernel_size |-> kernel_size, stride |-> stride, padding |-> padding]

ApplyConv(conv, x) ==
    <<x[1], conv.out_channels,
      ConvLen(x[3], conv.kernel_size, conv.stride, conv.padding),
      ConvLen(x[4], conv.kernel_size, conv.stride, conv.padding)>>

\* a mutation of ResidualBlock: the projection shortcut ignores the stride
ResidualBlockNoStride(in_channels, out_channels, stride) ==
    [conv1 |-> Conv2d(in_channels, out_channels, 3, stride, 1),
     conv2 |-> Conv2d(out_channels, out_channels, 3, 1, 1),
     use_shortcut |-> (stride # 1 \/ in_channels # out_channels),
     shortcut |-> Conv2d(in_channels, out_channels, 1, 1, 0)]

\* ResidualBlock.__init__
ResidualBlock(in_channels, out_channels, stride) ==
    [conv1 |-> Conv2d(in_channels, out_channels, 3, stride, 1),
     conv2 |-> Conv2d(out_channels, out_channels, 3, 1, 1),
     use_shortcut |-> (stride # 1 \/ in_channels # out_channels),
     shortcut |-> Conv2d(in_channels, out_channels, 1, stride, 0)]

\* conv1, bn1, relu, conv2, bn2: normalisation and relu keep the shape
MainPath(b, x) == ApplyConv(b.conv2, ApplyConv(b.conv1, x))

ShortcutPath(b, x) == IF b.use_shortcut THEN ApplyConv(b.shortcut, x) ELSE x

\* out += shortcut: the in-place add needs shortcut to broadcast to out
AddInPlaceOk(out, sc) == \A d \in 1..4 : sc[d] = out[d] \/ sc[d] = 1

\* ResidualBlock.forward: the output shape, <<>> when the addition raises
BlockForward(b, x) ==
    IF AddInPlaceOk(MainPath(b, x), ShortcutPath(b, x))
    THEN MainPath(b, x) ELSE <<>>

\* AudioClassifier.layer1: Conv2d(1,64,7,2,3), BatchNorm, ReLU, MaxPool2d(3,2,1)
Layer1(x) ==
    LET c == ApplyConv(Conv2d(1, 64, 7, 2, 3), x)
    IN  <<c[1], c[2], ConvLen(c[3], 3, 2, 1), ConvLen(c[4], 3, 2, 1)>>

Stages == 2..5

\* the number of blocks of layer2..layer5
LayerLen(layer) == CASE layer = 2 -> 3 [] layer = 3 -> 4
                     [] layer = 4 -> 6 [] layer = 5 -> 3

\* block i (from 0) of layer2..layer5, as AudioClassifier.__init__ builds it
LayerBlock(layer, i) ==
    CASE layer = 2 -> ResidualBlock(64, 64, 1)
      [] layer = 3 -> ResidualBlock(IF i = 0 THEN 64 ELSE 128, 128,
                                    IF i = 0 THEN 2 ELSE 1)
      [] layer = 4 -> ResidualBlock(IF i = 0 THEN 128 ELSE 256, 256,
                                    IF i = 0 THEN 2 ELSE 1)
      [] layer = 5 -> ResidualBlock(IF i = 0 THEN 256 ELSE 512, 512,
                                    IF i = 0 THEN 2 ELSE 1)

\* position (from 1) of block i of a layer among the blocks forward runs
BlockIndex(layer, i) ==
    (CASE layer = 2 -> 0
       [] layer = 3 -> LayerLen(2)
       [] layer = 4 -> LayerLen(2) + LayerLen(3)
       [] layer = 5 -> LayerLen(2) + LayerLen(3) + LayerLen(4)) + i + 1

\* the blocks in the order forward runs them
BlockOrder ==
    [k \in 1..BlockIndex(5, LayerLen(5) - 1) |->
        CHOOSE b \in {[layer |-> l, i |-> i] : l \in Stages, i \in 0..5} :
            b.i < LayerLen(b.layer) /\ BlockIndex(b.layer, b.i) = k]

\* the loops of AudioClassifier.forward from block k on, on its input x:
\* the shape after each block, <<>> from the first addition that raises
RECURSIVE ShapesFrom(_, _)
ShapesFrom(x, k) ==
    IF k > Len(BlockOrder) THEN <<>>
    ELSE LET y == IF x = <<>> THEN <<>>
                  ELSE BlockForward(LayerBlock(BlockOrder[k].layer,
                                               BlockOrder[k].i), x)
         IN  <<y>> \o ShapesFrom(y, k + 1)

Digit(i) == <<"0", "1", "2", "3", "4", "5">>[i + 1]

\* the prefix forward passes to each block (layer5 has no hyphen)
Prefix(layer, i) ==
    IF layer = 5 THEN "layer5.block" \o Digit(i)
    ELSE "layer" \o Digit(layer) \o ".block-" \o Digit(i)

\* the entries forward(x, return_feature_maps=True) stores in feature_maps
\* (model.py:67-81; a dict: one entry per name)
FeatureMapEntries(x0) ==
    LET outs == ShapesFrom(Layer1(x0), 1)
    IN  {[name |-> "layer1", shape |-> Layer1(x0)]}
        \cup {[name |-> Prefix(BlockOrder[k].layer, BlockOrder[k].i) \o ".conv",
               shape |-> outs[k]] : k \in 1..Len(BlockOrder)}
        \cup {[name |-> Prefix(BlockOrder[k].layer, BlockOrder[k].i) \o ".relu",
               shape |-> outs[k]] : k \in 1..Len(BlockOrder)}
        \cup {[name |-> "layer" \o Digit(l),
               shape |-> outs[BlockIndex(l, LayerLen(l) - 1)]] : l \in Stages}

\* whether every residual addition of the forward pass is defined
ForwardShapesOk(x0) == \A e \in FeatureMapEntries(x0) : e.shape # <<>>

(***************************************************************************)
(* Requests and the decoded audio (main.py:99-106).                        *)
(***************************************************************************)
max_samples == 8000
target_sr == 44100
n_fft == 2048
hop_length == 512
n_mels == 128

SampleRates == {target_sr \div 2, target_sr}

\* frame counts around the shortest input the spectrogram accepts
ShortFrames == {n_fft \div 2 + d : d \in 0..MaxExtra}

\* frame counts around the preview cap, and the five seconds of the
\* end-to-end scenario
LongFrames(sr) == {max_samples + d : d \in 0..MaxExtra} \cup {5 * sr}

Patterns == {"silence", "ramp", "nan", "inf"}

NoRequest == [kind |-> "none"]

\* audio_data as the client encodes it: the base64 text, the container,
\* and for a readable container its channels, rate, frames and samples.
\* Short recordings come in every pattern, mono and stereo; long ones are
\* mono silence, with or without a NaN sample
Requests ==
    {[kind |-> "post", b64 |-> "incorrect_padding", container |-> "wav",
      channels |-> 1, sample_rate |-> target_sr, frames |-> max_samples,
      pattern |-> "silence"],
     [kind |-> "post", b64 |-> "ok", container |-> "not_audio",
      channels |-> 1, sample_rate |-> target_sr, frames |-> max_samples,
      pattern |-> "silence"]}
    \cup
    {[kind |-> "post", b64 |-> "ok", container |-> "wav", channels |-> c,
      sample_rate |-> sr, frames |-> n, pattern |-> pt] :
        c \in 1..2, sr \in SampleRates, n \in ShortFrames, pt \in Patterns}
    \cup
    UNION {{[kind |-> "post", b64 |-> "ok", container |-> "wav",
             channels |-> 1, sample_rate |-> sr, frames |-> n,
             pattern |-> pt] : n \in LongFrames(sr), pt \in {"silence", "nan"}}
           : sr \in SampleRates}

\* sample i (from 1) of channel c as sf.read returns it (float32)
Chan(req, c, i) ==
    LET ramp == 2 * ((i + c) % 4)
    IN  CASE req.pattern = "silence" -> 0
          [] req.pattern = "ramp" -> ramp
          [] req.pattern = "nan" -> IF i = 1 /\ c = 1 THEN NaN ELSE ramp
          [] req.pattern = "inf" -> IF i = 1 /\ c = 1 THEN PosInf ELSE ramp

HasNonFinite(req) == req.pattern \in {"nan", "inf"}

\* main.py:102-103: np.mean(audio_data, axis=1) when there are two channels
Mono(req, i) ==
    IF req.channels > 1
    THEN FDiv(FAdd(Chan(req, 1, i), Chan(req, 2, i)), 2)
    ELSE Chan(req, 1, i)

Resampled(req) == req.sample_rate # target_sr

\* librosa.resample: ceil(n * target_sr / orig_sr) samples
ResampleLen(n, sr) ==
    LET g == GCD(target_sr, sr)
    IN  CeilDiv(n * (target_sr \div g), sr \div g)

\* len(audio_data) after main.py:102-106
AudioLen(req) ==
    IF Resampled(req) THEN ResampleLen(req.frames, req.sample_rate)
    ELSE req.frames

\* librosa.resample validates its input first (util.valid_audio) and
\* raises ParameterError when a sample is not finite
ResampleRaises(req) == Resampled(req) /\ HasNonFinite(req)

\* audio_data[i-1] after main.py:102-106.  The band-limited filter of
\* librosa.resample is not computed: a resampled signal is read at the
\* nearest earlier source sample
AudioAt(req, i) ==
    IF ~Resampled(req) THEN Mono(req, i)
    ELSE LET g == GCD(target_sr, req.sample_rate)
         IN  Mono(req, ((i - 1) * (req.sample_rate \div g))
                           \div (target_sr \div g) + 1)

(***************************************************************************)
(* AudioProcessor (main.py:23-40).  A large array is kept as its shape and *)
(* the set of value classes that occur in it.                              *)
(***************************************************************************)
AudioProcessor ==
    [sample_rate |-> target_sr, n_fft |-> n_fft, hop_length |-> hop_length,
     n_mels |-> n_mels]

NoProcessor == [sample_rate |-> 0, n_fft |-> 0, hop_length |-> 0, n_mels |-> 0]

\* np.nan_to_num / torch.nan_to_num on an array kept as value classes
NanToNumVals(vals) ==
    IF vals \cap {"nan", "inf"} # {} THEN (vals \ {"nan", "inf"}) \cup {"finite"}
    ELSE vals

\* the centred STFT frames whose window holds sample 0 (hops 0..2 of a
\* 2048 window with hop 512)
FramesOverFirstSample(p) == p.n_fft \div (2 * p.hop_length) + 1

\* process_audio: the spectrogram tensor (1, 1, n_mels, frames), or <<>>
\* shape when the reflect padding of the centred STFT raises
process_audio(p, req) ==
    LET n == AudioLen(req)
        frames == n \div p.hop_length + 1
    IN  IF n <= p.n_fft \div 2 THEN [shape |-> <<>>, vals |-> {}]
        ELSE [shape |-> <<1, 1, p.n_mels, frames>>,
              vals |-> IF ~HasNonFinite(req) THEN {"finite"}
                       ELSE IF frames <= FramesOverFirstSample(p) THEN {"nan"}
                       ELSE {"nan", "finite"}]

(***************************************************************************)
(* The waveform preview (main.py:136-149).                                 *)
(***************************************************************************)
\* audio_data[::step].tolist(), or audio_data.tolist()
WaveformData(req) ==
    LET n == AudioLen(req)
    IN  IF n > max_samples
        THEN LET step == n \div max_samples
             IN  [j \in 1..CeilDiv(n, step) |-> AudioAt(req, (j - 1) * step + 1)]
        ELSE [j \in 1..n |-> AudioAt(req, j)]

\* the "waveform" entry of the response; duration is the Python float
\* len(audio_data) / sample_rate, kept as the fraction
Waveform(req) ==
    [values |-> WaveformData(req),
     sample_rate |-> req.sample_rate,
     duration |-> [num |-> AudioLen(req), den |-> req.sample_rate]]

(***************************************************************************)
(* The activation maps (main.py:121-131).                                  *)
(***************************************************************************)
\* tensor.dim, the attribute the code compares: a bound method
TensorDimAttr(t) == [py |-> "builtin_function_or_method", name |-> "dim"]

PyInt(v) == [py |-> "int", value |-> v]

\* Python's == between two objects of the model
PyEq(a, b) == a = b

\* main.py:122-131 on the captured maps: fm is a set of [name, shape, vals]
Visualizations(fm) ==
    LET kept == {t \in fm : PyEq(TensorDimAttr(t), PyInt(4))}
    IN  [name \in {t.name : t \in kept} |->
            LET t == CHOOSE t \in kept : t.name = name
            IN  [shape |-> <<t.shape[3], t.shape[4]>>,
                 vals |-> NanToNumVals(t.vals)]]

(***************************************************************************)
(* The checkpoint and load_model (main.py:44-93).                          *)
(***************************************************************************)
\* the parameter groups of AudioClassifier.state_dict()
ModelKeys == {"layer1", "layer2", "layer3", "layer4", "layer5", "fc"}

\* key sets of a checkpoint's model_state_dict: exact, one group missing
\* and one foreign, and no group in common
CkptKeySets == {ModelKeys, (ModelKeys \ {"fc"}) \cup {"head"}, {"head"}}

\* the artifact at /models/best_model.pth
Checkpoints ==
    {[kind |-> k, classes |-> <<>>, keys |-> {}, fc_shape_ok |-> TRUE] :
        k \in {"unreadable", "no_classes"}}
    \cup {[kind |-> "ok", classes |-> ClassList(n), keys |-> K,
           fc_shape_ok |-> TRUE] : n \in 2..MaxClasses, K \in CkptKeySets}
    \cup {[kind |-> "ok", classes |-> ClassList(n), keys |-> ModelKeys,
           fc_shape_ok |-> FALSE] : n \in 2..MaxClasses}

NoModel == [built |-> FALSE]

\* AudioClassifier(num_classes): fresh parameters, training mode (nn.Module)
AudioClassifier(num_classes) ==
    [built |-> TRUE, num_classes |-> num_classes,
     params |-> [k \in ModelKeys |-> "init"],
     training |-> TRUE, num_batches_tracked |-> 0, device |-> "cpu"]

\* load_state_dict copies every checkpoint tensor whose key and shape match
Copied(m, ckpt) ==
    [m EXCEPT !.params = [k \in ModelKeys |->
        IF k \in ckpt.keys /\ (k # "fc" \/ ckpt.fc_shape_ok)
        THEN "checkpoint" ELSE @[k]]]

\* load_state_dict raises RuntimeError: on a size mismatch always, on
\* missing or unexpected keys when strict
LoadStateDictRaises(ckpt, strict) ==
    \/ "fc" \in ckpt.keys /\ ~ckpt.fc_shape_ok
    \/ strict /\ ckpt.keys # ModelKeys

\* a mutation of LoadRaises: the handler swallows every exception
LoadNeverRaises(ckpt) == FALSE

\* whether the try block of load_model (main.py:49-89) ends in the except
\* clause, which re-raises: torch.load or checkpoint["classes"] fails, or the
\* strict load and then the non-strict load raise
LoadRaises(ckpt) ==
    \/ ckpt.kind # "ok"
    \/ LoadStateDictRaises(ckpt, TRUE) /\ LoadStateDictRaises(ckpt, FALSE)

\* a mutation of EvalMode: model.eval() is not called
KeepMode(m) == m

\* model.eval()
EvalMode(m) == [m EXCEPT !.training = FALSE]

\* self.model after main.py:55-86
LoadedModel(ckpt, dev) ==
    EvalMode([Copied(AudioClassifier(Len(ckpt.classes)), ckpt)
                 EXCEPT !.device = dev])

\* a mutation of CanServe: requests are handed to evaluate while loading
CanServeEarly == phase \in {"Loading", "Ready"}

\* the endpoint runs evaluate only once the @modal.enter hook has returned
CanServe == phase = "Ready"

\* the container starts and enters load_model (main.py:44-47)
Enter ==
    /\ phase = "Uninitialized"
    /\ phase' = "Loading"
    /\ \E d \in {"cuda", "cpu"} : device' = d
    /\ UNCHANGED <<classes, model, processor, checkpoint, request, response,
                   tk, blk>>

\* the try block of load_model and its except clause (main.py:49-93)
load_model ==
    /\ phase = "Loading"
    /\ IF LoadRaises(checkpoint)
       THEN /\ phase' = "Failed"
            /\ IF checkpoint.kind = "ok"
               THEN /\ classes' = checkpoint.classes
                    /\ model' = Copied(AudioClassifier(Len(checkpoint.classes)),
                                       checkpoint)
               ELSE UNCHANGED <<classes, model>>
            /\ UNCHANGED processor
       ELSE /\ phase' = "Ready"
            /\ classes' = checkpoint.classes
            /\ model' = LoadedModel(checkpoint, device)
            /\ processor' = AudioProcessor
    /\ UNCHANGED <<device, checkpoint, request, response, tk, blk>>

(***************************************************************************)
(* The client's POST and the evaluate handler (main.py:95-149, 152-162).   *)
(***************************************************************************)
NoResponse == [kind |-> "none"]

\* the client posts one request and waits for its response
Post ==
    /\ phase \in {"Uninitialized", "Loading", "Ready"}
    /\ request = NoRequest \/ response # NoResponse
    /\ \E req \in Requests : request' = req
    /\ response' = NoResponse
    /\ UNCHANGED <<phase, device, classes, model, processor, checkpoint,
                   tk, blk>>

\* logits the network may return on a finite spectrogram: no class ahead,
\* one class ahead, three classes ahead
LogitSamples(n) ==
    {[i \in 1..n |-> 0],
     [i \in 1..n |-> IF i = 1 THEN PosInf ELSE 0],
     [i \in 1..n |-> IF i <= 3 THEN 2 * ExpUnderflow ELSE NegInf]}

\* logits of self.model(spectrogram): a non-finite input value reaches
\* every logit through the convolutions and the global average pooling
Logits(m, spectrogram) ==
    IF "nan" \in spectrogram.vals THEN {[i \in 1..m.num_classes |-> NaN]}
    ELSE LogitSamples(m.num_classes)

\* the module after one forward pass: BatchNorm updates its running
\* statistics in training mode only
AfterForward(m) ==
    IF m.training
    THEN [m EXCEPT !.num_batches_tracked = @ + 1]
    ELSE m

\* feature_maps of the instrumented forward pass on the spectrogram
FeatureMaps(spectrogram) ==
    {[name |-> e.name, shape |-> e.shape, vals |-> spectrogram.vals] :
        e \in FeatureMapEntries(spectrogram.shape)}

\* the value evaluate returns, or the exception it raises, for the request
\* with the logits and tie rule of this forward pass (main.py:99-149)
EvaluateResult(req, output, tie) ==
    IF req.b64 # "ok" THEN Raised("binascii.Error")
    ELSE IF req.container # "wav" THEN Raised("LibsndfileError")
    ELSE IF ResampleRaises(req) THEN Raised("ParameterError")
    ELSE IF processor = NoProcessor THEN Raised("AttributeError")
    ELSE LET spectrogram == process_audio(processor, req)
         IN  IF spectrogram.shape = <<>> \/ ~ForwardShapesOk(spectrogram.shape)
             THEN Raised("RuntimeError")
             ELSE LET predictions == Predictions(classes, output, tie)
                  IN  IF predictions.kind = "raised" THEN predictions
                      ELSE [kind |-> "ok",
                            predictions |-> predictions.value,
                            visualization |->
                                Visualizations(FeatureMaps(spectrogram)),
                            input_spectogram |->
                                [shape |-> <<spectrogram.shape[3],
                                             spectrogram.shape[4]>>,
                                 vals |-> NanToNumVals(spectrogram.vals)],
                            waveform |-> Waveform(req)]

\* whether the request reaches self.model(...) (main.py:112)
ReachesForward(req) ==
    /\ req.b64 = "ok" /\ req.container = "wav"
    /\ ~ResampleRaises(req)
    /\ processor # NoProcessor
    /\ process_audio(processor, req).shape # <<>>

\* the whole evaluate handler on the pending request
evaluate ==
    /\ CanServe
    /\ request # NoRequest /\ response = NoResponse
    /\ IF ReachesForward(request) /\ model # NoModel
       THEN /\ model.num_batches_tracked < MaxTracked
            /\ \E output \in Logits(model, process_audio(processor, request)) :
                 \E tie \in {"low", "high"} :
                    response' = EvaluateResult(request, output, tie)
            /\ model' = AfterForward(model)
       ELSE /\ response' = EvaluateResult(request, <<>>, "low")
            /\ model' = model
    /\ UNCHANGED <<phase, device, classes, processor, checkpoint, request,
                   tk, blk>>

\* the container is scaled down (scaledown_window)
Shutdown ==
    /\ phase = "Ready"
    /\ phase' = "Shutdown"
    /\ UNCHANGED <<device, classes, model, processor, checkpoint, request,
                   response, tk, blk>>

TkIdle == [pc |-> "idle"]
BlkIdle == [pc |-> "idle"]

Init ==
    /\ phase = "Uninitialized"
    /\ device = "none"
    /\ classes = <<>>
    /\ model = NoModel
    /\ processor = NoProcessor
    /\ checkpoint \in Checkpoints
    /\ request = NoRequest
    /\ response = NoResponse
    /\ tk = TkIdle
    /\ blk = BlkIdle

Next == Enter \/ load_model \/ Post \/ evaluate \/ Shutdown

Spec == Init /\ [][Next]_vars

(***************************************************************************)
(* SpecTopK: the prediction pipeline on every logits vector over           *)
(* RawLogits, for every class list of up to MaxTopKClasses labels.         *)
(***************************************************************************)
ServiceIdle ==
    /\ phase = "Uninitialized"
    /\ device = "none"
    /\ classes = <<>>
    /\ model = NoModel
    /\ processor = NoProcessor
    /\ checkpoint = [kind |-> "unreadable", classes |-> <<>>, keys |-> {},
                     fc_shape_ok |-> TRUE]
    /\ request = NoRequest
    /\ response = NoResponse

TopKInputs ==
    UNION {{[pc |-> "in", classes |-> ClassList(n), output |-> o, tie |-> t] :
               o \in [1..n -> RawLogits], t \in {"low", "high"}}
           : n \in 1..MaxTopKClasses}

InitTopK == ServiceIdle /\ tk \in TopKInputs /\ blk = BlkIdle

\* main.py:113-119 applied to the drawn logits
topk_apply ==
    /\ tk.pc = "in"
    /\ tk' = [pc |-> "out", classes |-> tk.classes, output |-> tk.output,
              tie |-> tk.tie,
              result |-> Predictions(tk.classes, tk.output, tk.tie)]
    /\ UNCHANGED <<serviceVars, blk>>

NextTopK == topk_apply

SpecTopK == InitTopK /\ [][NextTopK]_vars

(***************************************************************************)
(* SpecBlock: one residual block on every input of a bounded family, and   *)
(* the stem and the sixteen blocks of AudioClassifier run block by block.  *)
(***************************************************************************)
BlockChannels == {1, 64, 128}

BlockInputs ==
    {[pc |-> "block", in_channels |-> ci, out_channels |-> co, stride |-> st,
      x |-> <<1, ci, h, w>>] :
        ci \in BlockChannels, co \in BlockChannels, st \in 1..2,
        h \in 1..MaxDim, w \in 1..MaxDim}

\* heights and widths of a spectrogram: around every halving of n_mels
NetDims == {n_mels \div 2^j + d : j \in 0..7, d \in 0..MaxDim}

NetInputs == {[pc |-> "stem", x |-> <<1, 1, h, w>>] : h \in NetDims, w \in NetDims}

InitBlock == ServiceIdle /\ tk = TkIdle /\ blk \in BlockInputs \cup NetInputs

\* ResidualBlock.forward on the drawn input (model.py:18-32)
block_forward ==
    /\ blk.pc = "block"
    /\ LET b == ResidualBlock(blk.in_channels, blk.out_channels, blk.stride)
       IN  blk' = [pc |-> "block_done", in_channels |-> blk.in_channels,
                   out_channels |-> blk.out_channels, stride |-> blk.stride,
                   x |-> blk.x, use_shortcut |-> b.use_shortcut,
                   main |-> MainPath(b, blk.x),
                   shortcut |-> ShortcutPath(b, blk.x),
                   out |-> BlockForward(b, blk.x)]
    /\ UNCHANGED <<serviceVars, tk>>

\* x = self.layer1(x) (model.py:68)
net_stem ==
    /\ blk.pc = "stem"
    /\ blk' = [pc |-> "blocks", k |-> 1, x |-> Layer1(blk.x)]
    /\ UNCHANGED <<serviceVars, tk>>

\* one iteration of the loops over layer2..layer5 (model.py:70-80)
net_block ==
    /\ blk.pc = "blocks"
    /\ blk.k <= Len(BlockOrder)
    /\ blk.x # <<>>
    /\ LET at == BlockOrder[blk.k]
           y == BlockForward(LayerBlock(at.layer, at.i), blk.x)
       IN  blk' = [pc |-> "blocks", k |-> blk.k + 1, x |-> y,
                   last |-> [layer |-> at.layer, i |-> at.i,
                             xin |-> blk.x, xout |-> y]]
    /\ UNCHANGED <<serviceVars, tk>>

NextBlock == block_forward \/ net_stem \/ net_block

SpecBlock == InitBlock /\ [][NextBlock]_vars

(***************************************************************************)
(* What the client sees.  evaluate has no exception handler, so the web    *)
(* endpoint answers every exception with its one internal-error response.  *)
(***************************************************************************)
GenericFault == [status |-> 500, body |-> "Internal Server Error"]

ClientView(r) ==
    IF r.kind = "raised" THEN GenericFault
    ELSE [status |-> 200, body |-> "payload"]

DecodeFails(req) == req.b64 # "ok" \/ req.container # "wav"

Served == response.kind = "ok"

(***************************************************************************)
(* Claims under Spec.                                                      *)
(***************************************************************************)

\* C1: for every length n of audio_data after channel collapse and
\* resampling, the emitted waveform preview holds at most 8000 samples, and
\* when n <= 8000 it is exactly the n samples, in order and unchanged.
C1_PreviewWithinCap ==
    Served =>
        /\ Len(response.waveform.values) <= max_samples
        /\ AudioLen(request) <= max_samples =>
              response.waveform.values =
                  [i \in 1..AudioLen(request) |-> AudioAt(request, i)]

\* C2: every numeric value of every array of a successful response
\* (confidences, visualization maps, input_spectogram, waveform values) is
\* finite.
C2_AllValuesFinite ==
    Served =>
        /\ \A j \in 1..Len(response.predictions) :
              IsFinite(response.predictions[j].confidence)
        /\ \A name \in DOMAIN response.visualization :
              response.visualization[name].vals \subseteq {"finite"}
        /\ response.input_spectogram.vals \subseteq {"finite"}
        /\ \A i \in 1..Len(response.waveform.values) :
              IsFinite(response.waveform.values[i])

\* C4: in every successful response waveform.duration is the submitted
\* audio's length in seconds (frames / input rate) and waveform.sample_rate
\* is the rate of the array the returned samples were taken from, also for
\* inputs resampled to 44100 Hz.  The duration is a fraction over the
\* request's sample rate, so the numerators are compared.
C4_DurationAndRate ==
    Served =>
        /\ response.waveform.duration.den = request.sample_rate
        /\ response.waveform.duration.num = request.frames
        /\ response.waveform.sample_rate =
              (IF Resampled(request) THEN target_sr ELSE request.sample_rate)

C6_NoPartialModelServed ==
    phase \in {"Ready", "Shutdown"} =>
        \A k \in ModelKeys : model.params[k] = "checkpoint"

\* C6 as amended: load_model raises, and Ready is never reached and no
\* request is answered, when the checkpoint cannot be read, lacks its class
\* list, or holds a parameter of the wrong shape; a key-set mismatch alone
\* is tolerated: Ready is reached in eval mode with exactly the parameters
\* the checkpoint names copied and the others left as constructed.
C6_LoadFailureFatal ==
    /\ (checkpoint.kind # "ok"
        \/ ("fc" \in checkpoint.keys /\ ~checkpoint.fc_shape_ok)) =>
           phase \notin {"Ready", "Shutdown"} /\ response = NoResponse
    /\ phase \in {"Ready", "Shutdown"} =>
           /\ ~model.training
           /\ \A k \in ModelKeys :
                 model.params[k] =
                     (IF k \in checkpoint.keys THEN "checkpoint" ELSE "init")

C6_Witness ==
    /\ phase = "Ready" /\ Served
    /\ \E k \in ModelKeys : model.params[k] = "init"

\* C7: a request whose audio_data is not valid base64 or not a decodable
\* container ends in an error outcome the client can tell from a
\* forward-pass failure and from a generic fault, with no partial response
\* and the process still Ready.
C7_DecodeErrorDistinct ==
    (request # NoRequest /\ response # NoResponse /\ DecodeFails(request)) =>
        /\ response.kind = "raised"
        /\ ClientView(response) # ClientView(Raised("RuntimeError"))
        /\ ClientView(response) # GenericFault

\* C8: once load_model has completed no step, and so no evaluate request,
\* successful or failing, changes the model (parameters, mode, buffers),
\* the class list, the device or the processor.
C8_SharedStateReadOnly ==
    [][phase = "Ready" => UNCHANGED <<model, classes, device, processor>>]_vars

C8_Witness ==
    /\ phase = "Ready" /\ Served
    /\ model.num_batches_tracked = 0 /\ ~model.training

\* C9: the visualization mapping of a successful response has one entry,
\* under the same name, for every activation snapshot the instrumented
\* forward pass captured.
C9_AllMapsReturned ==
    Served =>
        DOMAIN response.visualization =
            {e.name : e \in FeatureMapEntries(
                                process_audio(processor, request).shape)}

(***************************************************************************)
(* Claims under SpecTopK.  A confidence is in units of 2^-26.              *)
(***************************************************************************)
Conf(j) == tk.result.value[j].confidence

\* what the three returned entries must be, whatever the class count
TopThree ==
    LET n == Len(tk.classes)
        p == Softmax([i \in 1..n |-> NanToNum(tk.output[i])], n)
    IN  /\ tk.result.kind = "ok"
        /\ Len(tk.result.value) = 3
        /\ \E idx \in [1..3 -> 1..n] :
              /\ \A a, b \in 1..3 : a # b => idx[a] # idx[b]
              /\ \A j \in 1..3 :
                    /\ tk.result.value[j].class = tk.classes[idx[j]]
                    /\ Conf(j) = p[idx[j]]
              /\ \A i \in (1..n) \ {idx[j] : j \in 1..3} :
                    \A j \in 1..3 : p[i] <= p[idx[j]]
        /\ Conf(1) >= Conf(2) /\ Conf(2) >= Conf(3)
        /\ \A j \in 1..3 : Conf(j) >= 0 /\ Conf(j) <= ConfScale

\* C3 as claimed: for every logits vector over the class list evaluate
\* returns exactly 3 predictions, the three most probable classes with
\* their softmax probabilities in descending order, each in [0,1], with a
\* sum of at most 1.
C3_TopThreeSumAtMostOne ==
    tk.pc = "out" =>
        TopThree /\ Conf(1) + Conf(2) + Conf(3) <= ConfScale

\* C3 as amended: with fewer than 3 classes topk raises and nothing is
\* returned; with 3 or more the three most probable classes are returned
\* in descending order, each confidence in [0,1]; their sum is at most 1 up
\* to float32 rounding only (three classes tied at 1/3 sum to 1 + 2^-25,
\* two units of 2^-26).
C3_TopThreeUpToRounding ==
    tk.pc = "out" =>
        IF Len(tk.classes) < 3 THEN tk.result.kind = "raised"
        ELSE TopThree /\ Conf(1) + Conf(2) + Conf(3) <= ConfScale + 2

C3_Witness ==
    /\ tk.pc = "out" /\ tk.result.kind = "ok"
    /\ Len(tk.classes) > 3
    /\ Conf(1) > Conf(3)
    /\ \E i \in 1..Len(tk.classes) : tk.output[i] = NaN

(***************************************************************************)
(* Claims under SpecBlock.                                                 *)
(***************************************************************************)

\* C10: in every residual block the main path after the two 3x3
\* convolutions has the shape of the shortcut path, the projection being
\* used exactly when stride # 1 or the channel counts differ; and over the
\* stages of 3, 4, 6 and 3 blocks with widths 64, 128, 256 and 512 only the
\* first block of stages 2-4 (layer3..layer5) changes the shape, halving
\* height and width rounding up and doubling the channels.
C10_ResidualShapes ==
    /\ blk.pc = "block_done" =>
          /\ blk.main = blk.shortcut
          /\ blk.out = <<1, blk.out_channels,
                         CeilDiv(blk.x[3], blk.stride),
                         CeilDiv(blk.x[4], blk.stride)>>
          /\ blk.use_shortcut <=>
                (blk.stride # 1 \/ blk.in_channels # blk.out_channels)
          /\ ~blk.use_shortcut => blk.shortcut = blk.x
    /\ (blk.pc = "blocks" /\ blk.k > 1) =>
          /\ blk.x # <<>>
          /\ blk.x[2] = (CASE blk.last.layer = 2 -> 64
                           [] blk.last.layer = 3 -> 128
                           [] blk.last.layer = 4 -> 256
                           [] blk.last.layer = 5 -> 512)
          /\ IF blk.last.i = 0 /\ blk.last.layer \in 3..5
             THEN blk.last.xout = <<1, 2 * blk.last.xin[2],
                                    CeilDiv(blk.last.xin[3], 2),
                                    CeilDiv(blk.last.xin[4], 2)>>
             ELSE blk.last.xout = blk.last.xin
          /\ blk.last.layer = (IF blk.k - 1 <= 3 THEN 2
                               ELSE IF blk.k - 1 <= 3 + 4 THEN 3
                               ELSE IF blk.k - 1 <= 3 + 4 + 6 THEN 4
                               ELSE 5)
          /\ blk.k - 1 <= 3 + 4 + 6 + 3

C10_Witness ==
    /\ blk.pc = "block_done"
    /\ blk.stride = 2 /\ blk.in_channels # blk.out_channels
    /\ blk.x[3] = 3 /\ blk.out[3] = 2

====
